---- MODULE Spec2Model ----
(***************************************************************************)
(* MDACE evaluation toolkit: the tokenizer (mdace/text.py), the span       *)
(* cleanup transforms (mdace/cleanup.py), the error-rate engine            *)
(* (mdace/metrics.py) and the evaluation loop (evaluate-predictions.py).   *)
(*                                                                         *)
(* A text is a sequence of one-character strings.  Offsets are Python's:   *)
(* 0-based, half-open, so text[b:e] is SubSeq(text, b+1, e).               *)
(***************************************************************************)
EXTENDS Integers, Sequences, FiniteSets, TLC

VARIABLES
    tok_text,      \* tokenizer: the argument of tokenize
    tok_out,       \* tokenizer: the value tokenize returned (NotRun before)
    note,          \* cleanup: the note being transformed
    last_op,       \* cleanup: the transform applied last
    prev_note,     \* cleanup: the note the last transform was applied to
    actual,        \* metrics: the actual admission of the pair
    predicted,     \* metrics: the predicted admission of the pair
    metric,        \* metrics: the comparison that ran last
    result,        \* metrics: what that comparison returned or raised
    gold,          \* evaluation: hadm_id -> admission (gold)
    predictions,   \* evaluation: hadm_id -> admission (predictions)
    todo,          \* evaluation: gold hadm_ids the loop has not reached
    error_rates,   \* evaluation: AllErrorRates.error_rates
    status,        \* evaluation: "running", "done" or "failed"
    last           \* evaluation: the last loop iteration

tok_vars  == <<tok_text, tok_out>>
note_vars == <<note, last_op, prev_note>>
met_vars  == <<actual, predicted, metric, result>>
eval_vars == <<gold, predictions, todo, error_rates, status, last>>
vars == <<tok_vars, note_vars, met_vars, eval_vars>>

(***************************************************************************)
(* Python values                                                           *)
(***************************************************************************)
\* None, as a covered_text: a one-element sequence that is no text
None == <<"None">>

\* the truth value Python gives a covered_text in `if span.covered_text:`
Truthy(covered_text) == covered_text # None /\ covered_text # <<>>

Min(a, b) == IF a < b THEN a ELSE b

\* text[b:e]; indices beyond the text are clamped and b >= e gives ""
Slice(text, b, e) == SubSeq(text, Min(b, Len(text)) + 1, Min(e, Len(text)))

\* a value returned, or an exception raised to the caller
Ok(v)      == [ok |-> TRUE,  value |-> v,    exc |-> "none"]
Raise(exc) == [ok |-> FALSE, value |-> "none", exc |-> exc]

(***************************************************************************)
(* Characters                                                              *)
(***************************************************************************)
UpperLetters == <<"A","B","C","D","E","F","G","H","I","J","K","L","M",
                  "N","O","P","Q","R","S","T","U","V","W","X","Y","Z">>
LowerLetters == <<"a","b","c","d","e","f","g","h","i","j","k","l","m",
                  "n","o","p","q","r","s","t","u","v","w","x","y","z">>
Digits == <<"0","1","2","3","4","5","6","7","8","9">>

Range(seq) == {seq[i] : i \in DOMAIN seq}

\* string.punctuation (the grave accent cannot be written as a TLA+ string
\* and is left out)
Punctuation == {"!", "\"", "#", "$", "%", "&", "'", "(", ")", "*", "+", ",",
                "-", ".", "/", ":", ";", "<", "=", ">", "?", "@", "[", "\\",
                "]", "^", "_", "{", "|", "}", "~"}
\* string.whitespace (vertical tab has no TLA+ escape and is left out)
Whitespace == {" ", "\t", "\n", "\r", "\f"}

\* str.lower() on one character
LowerChar(c) ==
    IF c \in Range(UpperLetters)
    THEN LowerLetters[CHOOSE i \in DOMAIN UpperLetters : UpperLetters[i] = c]
    ELSE c

\* str.lower()
lower(text) == [i \in 1..Len(text) |-> LowerChar(text[i])]

\* a character the pattern \w matches
IsWordChar(c) ==
    c \in Range(UpperLetters) \cup Range(LowerLetters) \cup Range(Digits) \cup {"_"}

\* str.isdigit()
isdigit(text) == Len(text) > 0 /\ \A i \in 1..Len(text) : text[i] \in Range(Digits)

DigitValue(c) == (CHOOSE i \in DOMAIN Digits : Digits[i] = c) - 1

\* int() of a string of digits
RECURSIVE int(_)
int(text) ==
    IF Len(text) = 0 THEN 0
    ELSE 10 * int(SubSeq(text, 1, Len(text) - 1)) + DigitValue(text[Len(text)])

(***************************************************************************)
(* mdace.data                                                              *)
(***************************************************************************)
Span(begin, end, covered_text) ==
    [begin |-> begin, end |-> end, covered_text |-> covered_text]

Annotation(span, billing_code) == [span |-> span, billing_code |-> billing_code]

Note(note_id, text, annotations) ==
    [note_id |-> note_id, text |-> text, annotations |-> annotations]

Admission(hadm_id, notes) == [kind |-> "Admission", hadm_id |-> hadm_id, notes |-> notes]

(***************************************************************************)
(* mdace/text.py                                                           *)
(***************************************************************************)
\* where the match of \w+ that starts at offset pos ends
RECURSIVE MatchEnd(_, _)
MatchEnd(text, pos) ==
    IF pos < Len(text) /\ IsWordChar(text[pos + 1])
    THEN MatchEnd(text, pos + 1)
    ELSE pos

\* TOKEN_PATTERN.finditer(text), from offset pos on, as spans
RECURSIVE finditer(_, _)
finditer(text, pos) ==
    IF pos >= Len(text) THEN <<>>
    ELSE IF IsWordChar(text[pos + 1])
         THEN LET end == MatchEnd(text, pos)
              IN  <<Span(pos, end, Slice(text, pos, end))>> \o finditer(text, end)
         ELSE finditer(text, pos + 1)

\* the filter of tokenize: numbers greater than 10 are excluded
KeepTokenNoTen(span) ==
    ~isdigit(span.covered_text) \/ int(span.covered_text) < 10
KeepToken(span) ==
    ~isdigit(span.covered_text) \/ int(span.covered_text) <= 10

\* the text tokenize scans
TokenizedTextAsIs(text) == text
TokenizedText(text) == lower(text)

tokenize(text) == SelectSeq(finditer(TokenizedText(text), 0), KeepToken)

\* the list comprehension of tokenize_annotation: the annotation with each
\* span of spans in turn, moved by token_offset
RebasedOnto_unmoved(annotation, token_offset, spans) ==
    [k \in DOMAIN spans |-> [annotation EXCEPT !.span = spans[k]]]

RebasedOnto(annotation, token_offset, spans) ==
    [k \in DOMAIN spans |->
        [annotation EXCEPT !.span =
            [spans[k] EXCEPT !.begin = token_offset + spans[k].begin,
                             !.end = token_offset + spans[k].end]]]

\* tokenize_annotation with tokenize as tokenize_fn: the annotations of the
\* tokens, or the ValueError
tokenize_annotation_skipping(annotation) ==
    IF annotation.span.covered_text = None
    THEN Ok(<<>>)
    ELSE Ok(RebasedOnto(annotation, annotation.span.begin,
                        tokenize(annotation.span.covered_text)))

tokenize_annotation(annotation) ==
    IF annotation.span.covered_text = None
    THEN Raise("ValueError")
    ELSE Ok(RebasedOnto(annotation, annotation.span.begin,
                        tokenize(annotation.span.covered_text)))

\* flat.extend(more), when neither raised
Extended(flat, more) ==
    IF ~flat.ok THEN flat
    ELSE IF ~more.ok THEN more
    ELSE Ok(flat.value \o more.value)

RECURSIVE tokenize_annotations(_)
tokenize_annotations(annotations) ==
    IF Len(annotations) = 0 THEN Ok(<<>>)
    ELSE Extended(tokenize_annotation(Head(annotations)),
                  tokenize_annotations(Tail(annotations)))

\* dataclasses.replace(note, annotations=...), when tokenize_annotations
\* returned
NoteWith(n, annotations) ==
    IF ~annotations.ok THEN annotations
    ELSE Ok(<<[n EXCEPT !.annotations = annotations.value]>>)

\* the list comprehension of tokenize_admission
RECURSIVE TokenizeNotes(_)
TokenizeNotes(notes) ==
    IF Len(notes) = 0 THEN Ok(<<>>)
    ELSE Extended(NoteWith(Head(notes), tokenize_annotations(Head(notes).annotations)),
                  TokenizeNotes(Tail(notes)))

\* dataclasses.replace(admission, notes=...), when the notes were tokenized
AdmissionWith(admission, notes) ==
    IF ~notes.ok THEN notes ELSE Ok([admission EXCEPT !.notes = notes.value])

\* tokenize_admission with tokenize as tokenize_fn; a list has no attribute
\* notes
tokenize_admission(admission) ==
    IF admission.kind # "Admission" THEN Raise("AttributeError")
    ELSE AdmissionWith(admission, TokenizeNotes(admission.notes))

(***************************************************************************)
(* mdace/cleanup.py                                                        *)
(***************************************************************************)
NON_BREAKING_CHARS == Punctuation \cup Whitespace

is_non_breaking_punctuation(connecting) ==
    \A i \in 1..Len(connecting) : connecting[i] \in Punctuation

is_non_breaking(connecting) ==
    \A i \in 1..Len(connecting) : connecting[i] \in NON_BREAKING_CHARS

_merge_stale_text(left, right, note_text) ==
    [left EXCEPT !.span.end = right.span.end]

_merge(left, right, note_text) ==
    LET new_begin == left.span.begin
        new_end == right.span.end
        covered_text == IF Truthy(left.span.covered_text)
                        THEN Slice(note_text, new_begin, new_end)
                        ELSE None
    IN  [left EXCEPT !.span = Span(new_begin, new_end, covered_text)]

\* sorted(annotations, key=lambda a: a.span.begin): a stable sort
RECURSIVE InsertByBegin(_, _)
InsertByBegin(ordered, a) ==
    IF Len(ordered) = 0 THEN <<a>>
    ELSE IF ordered[Len(ordered)].span.begin <= a.span.begin
         THEN Append(ordered, a)
         ELSE Append(InsertByBegin(SubSeq(ordered, 1, Len(ordered) - 1), a),
                     ordered[Len(ordered)])

RECURSIVE SortedByBegin(_)
SortedByBegin(annotations) ==
    IF Len(annotations) = 0 THEN <<>>
    ELSE InsertByBegin(SortedByBegin(SubSeq(annotations, 1, Len(annotations) - 1)),
                       annotations[Len(annotations)])

\* the test of the loop of _merge_adjacent
MergeEligible(previous, current, note_text) ==
    /\ previous.billing_code = current.billing_code
    /\ is_non_breaking(Slice(note_text, previous.span.end, current.span.begin))

\* the loop of _merge_adjacent over the annotations left in order_ensured
RECURSIVE MergeLoop(_, _, _)
MergeLoop(merged, order_ensured, note_text) ==
    IF Len(order_ensured) = 0 THEN merged
    ELSE LET current == Head(order_ensured)
             previous == merged[Len(merged)]
         IN  IF MergeEligible(previous, current, note_text)
             THEN MergeLoop([merged EXCEPT ![Len(merged)] =
                                _merge(previous, current, note_text)],
                            Tail(order_ensured), note_text)
             ELSE MergeLoop(Append(merged, current), Tail(order_ensured), note_text)

_merge_adjacent(annotations, note_text) ==
    IF Len(annotations) < 2 THEN annotations
    ELSE LET order_ensured == SortedByBegin(annotations)
         IN  MergeLoop(<<Head(order_ensured)>>, Tail(order_ensured), note_text)

merge_adjacent_in_note(n) ==
    IF Len(n.annotations) < 2 THEN n
    ELSE LET new_annos == _merge_adjacent(n.annotations, n.text)
         IN  IF Len(new_annos) < Len(n.annotations)
             THEN [n EXCEPT !.annotations = new_annos]
             ELSE n

TRIM_CHARS == {"-", ".", ",", "/", " ", "\n", "\t"}
TRIM_L_CHARS_opening == {"("} \cup TRIM_CHARS
TRIM_L_CHARS == {")"} \cup TRIM_CHARS
TRIM_R_CHARS == {"("} \cup TRIM_CHARS

\* the first loop of _do_trim
RECURSIVE TrimBegin(_, _, _)
TrimBegin(text, new_begin, end) ==
    IF new_begin < end /\ text[new_begin + 1] \in TRIM_L_CHARS
    THEN TrimBegin(text, new_begin + 1, end)
    ELSE new_begin

\* the second loop of _do_trim
RECURSIVE TrimEnd(_, _, _)
TrimEnd(text, new_begin, new_end) ==
    IF new_end > new_begin /\ text[new_end] \in TRIM_R_CHARS
    THEN TrimEnd(text, new_begin, new_end - 1)
    ELSE new_end

_do_trim(text, span) ==
    LET new_begin == TrimBegin(text, span.begin, span.end)
        new_end == TrimEnd(text, new_begin, span.end)
        new_covered_text == IF Truthy(span.covered_text)
                            THEN Slice(text, new_begin, new_end)
                            ELSE None
    IN  Span(new_begin, new_end, new_covered_text)

\* the body of the loop of trim_annotations_in_note
TrimAnnotation(text, current) ==
    LET new_span == _do_trim(text, current.span)
    IN  IF new_span # current.span
        THEN [current EXCEPT !.span = new_span]
        ELSE current

trim_annotations_in_note(n) ==
    [n EXCEPT !.annotations =
        [k \in DOMAIN n.annotations |-> TrimAnnotation(n.text, n.annotations[k])]]

(***************************************************************************)
(* mdace/metrics.py                                                        *)
(***************************************************************************)
ErrorRate(tp, fp, fn) ==
    [true_positives |-> tp, false_positives |-> fp, false_negatives |-> fn]

\* ErrorRate.__add__, on two ErrorRates
__add__mistyped(self, other) ==
    ErrorRate(self.true_positives + other.true_positives,
              self.true_positives + other.false_positives,
              self.false_negatives + other.false_negatives)

__add__(self, other) ==
    ErrorRate(self.true_positives + other.true_positives,
              self.false_positives + other.false_positives,
              self.false_negatives + other.false_negatives)

\* ErrorRate.n_pred and ErrorRate.n_actual
n_pred(self) == self.true_positives + self.false_positives
n_actual(self) == self.true_positives + self.false_negatives

\* the empty list that stands in for a missing admission
EmptyList == [kind |-> "list", hadm_id |-> 0, notes |-> <<>>]

RECURSIVE IterNotes(_)
IterNotes(notes) ==
    IF Len(notes) = 0 THEN <<>>
    ELSE [k \in DOMAIN Head(notes).annotations |->
             <<Head(notes), Head(notes).annotations[k]>>]
         \o IterNotes(Tail(notes))

\* `for note, annotation in admission`: Admission.__iter__, or the items of
\* a list
Iterate(admission) ==
    IF admission.kind = "Admission" THEN IterNotes(admission.notes) ELSE <<>>

\* key_fn of exact_match_error
ExactKeyWithoutNote(n, anno) == <<0, anno>>
ExactKey(n, anno) == <<n.note_id, anno>>

normalize_as_is(text) == text
normalize(text) == lower(text)

\* key_fn of position_independent_error
PositionIndependentKey(n, anno) == <<normalize(anno.span.covered_text), anno.billing_code>>

\* the key function a comparison passes as key
key_fn(key, n, anno) ==
    IF key = "exact_match_error" THEN ExactKey(n, anno)
    ELSE PositionIndependentKey(n, anno)

_count_unique_errors(actual_, predicted_, key) ==
    LET actual_set == {key_fn(key, p[1], p[2]) : p \in Range(Iterate(actual_))}
        predicted_set == {key_fn(key, p[1], p[2]) : p \in Range(Iterate(predicted_))}
        tp == actual_set \cap predicted_set
        fp == predicted_set \ actual_set
        fn == actual_set \ predicted_set
    IN  ErrorRate(Cardinality(tp), Cardinality(fp), Cardinality(fn))

exact_match_error(actual_, predicted_) ==
    Ok(_count_unique_errors(actual_, predicted_, "exact_match_error"))

\* normalize(None) raises: None has no attribute lower
HasNoneText(admission) ==
    \E p \in Range(Iterate(admission)) : p[2].span.covered_text = None

position_independent_error(actual_, predicted_) ==
    IF HasNoneText(actual_) \/ HasNoneText(predicted_)
    THEN Raise("AttributeError")
    ELSE Ok(_count_unique_errors(actual_, predicted_, "position_independent_error"))

\* exact_match_error(a_tokenized, p_tokenized), when both were tokenized
ExactMatchOfTokenized(a_tokenized, p_tokenized) ==
    IF ~a_tokenized.ok THEN a_tokenized
    ELSE IF ~p_tokenized.ok THEN p_tokenized
    ELSE exact_match_error(a_tokenized.value, p_tokenized.value)

token_exact_match_error(actual_, predicted_) ==
    ExactMatchOfTokenized(tokenize_admission(actual_), tokenize_admission(predicted_))

\* position_independent_error(a_tokenized, p_tokenized), when both were
\* tokenized
PositionIndependentOfTokenized(a_tokenized, p_tokenized) ==
    IF ~a_tokenized.ok THEN a_tokenized
    ELSE IF ~p_tokenized.ok THEN p_tokenized
    ELSE position_independent_error(a_tokenized.value, p_tokenized.value)

token_position_independent_error(actual_, predicted_) ==
    PositionIndependentOfTokenized(tokenize_admission(actual_),
                                   tokenize_admission(predicted_))

\* AllErrorRates.__init__
NewErrorRates ==
    [span_exact_match |-> ErrorRate(0, 0, 0),
     span_position_independent |-> ErrorRate(0, 0, 0),
     token_exact_match |-> ErrorRate(0, 0, 0),
     token_position_independent |-> ErrorRate(0, 0, 0)]

\* one statement of observe, self.error_rates[name] += error: skipped when
\* an earlier statement raised, raising when the comparison raised
Accumulate(so_far, name, error) ==
    IF so_far.exc # "none" THEN so_far
    ELSE IF ~error.ok THEN [so_far EXCEPT !.exc = error.exc]
    ELSE [so_far EXCEPT !.error_rates[name] = __add__(@, error.value)]

\* AllErrorRates.observe on the accumulators rates: the accumulators it
\* leaves, and the exception it raised ("none" when it returned)
observe(rates, actual_, predicted_) ==
    Accumulate(
        Accumulate(
            Accumulate(
                Accumulate([error_rates |-> rates, exc |-> "none"],
                           "span_exact_match",
                           exact_match_error(actual_, predicted_)),
                "span_position_independent",
                position_independent_error(actual_, predicted_)),
            "token_exact_match",
            token_exact_match_error(actual_, predicted_)),
        "token_position_independent",
        token_position_independent_error(actual_, predicted_))

(***************************************************************************)
(* Bounds and inputs                                                       *)
(***************************************************************************)
MaxTokLen == 3

\* the most annotations a loaded note has
MaxAnnos == 2

Codes == {"A", "B"}

NoteTexts == {
    <<"a", ",", "B">>,
    <<"(", "a", ")">>,
    <<"a", "b">>,
    <<")", " ">> }

\* the annotations a loaded note over text can have: any span within the
\* text, with the covered text injected from the text or not injected
AnnotationsOver(text) ==
    {Annotation(Span(b, e, ct), code) :
        b \in 0..Len(text), e \in 0..Len(text), ct \in {None, text}, code \in Codes}

LoadedAnnotations(text) ==
    {Annotation(Span(a.span.begin, a.span.end,
                     IF a.span.covered_text = None THEN None
                     ELSE Slice(text, a.span.begin, a.span.end)),
                a.billing_code) :
        a \in {x \in AnnotationsOver(text) : x.span.begin <= x.span.end}}

\* the most annotations an admission of a compared pair has
MaxPairAnnos == 2

\* the texts of the two notes of a compared admission
PairText(note_id) ==
    IF note_id = 1 THEN <<"A", "b", " ", "a", "b">> ELSE <<"A", "b", " ", "1", "2">>

Placed(note_id, begin, end, has_text, code) ==
    [note_id |-> note_id,
     annotation |-> Annotation(Span(begin, end,
                                    IF has_text THEN Slice(PairText(note_id), begin, end)
                                    ELSE None),
                               code)]

\* the annotations a compared admission is made of, each in its note
PlacedAnnotations == {
    Placed(1, 0, 2, TRUE, "A"),
    Placed(1, 3, 5, TRUE, "A"),
    Placed(2, 0, 2, TRUE, "A"),
    Placed(1, 0, 2, TRUE, "B"),
    Placed(1, 0, 2, FALSE, "A"),
    Placed(1, 0, 5, TRUE, "A") }

AnnotationsIn(placed, note_id) ==
    LET InNote(p) == p.note_id = note_id
        chosen == SelectSeq(placed, InNote)
    IN  [k \in DOMAIN chosen |-> chosen[k].annotation]

\* the admission whose notes 1 and 2 hold the placed annotations, in order
AdmissionOf(hadm_id, placed) ==
    Admission(hadm_id, [n \in 1..2 |-> Note(n, PairText(n), AnnotationsIn(placed, n))])

\* the most admissions of the split
MaxHadm == 2

HadmIds == 1..MaxHadm

\* the admissions the loader can return for a hadm_id, by their annotations:
\* one; two of different billing codes, one of them of two tokens; one
\* without covered_text
LoadedAdmissions == {
    <<Placed(1, 0, 2, TRUE, "A")>>,
    <<Placed(1, 0, 5, TRUE, "A"), Placed(1, 0, 2, TRUE, "B")>>,
    <<Placed(1, 0, 2, FALSE, "A")>> }

TokAlphabet == {"a", "V", "0", "1", "2", " "}

ExampleTexts == {
    <<"a","b","c"," ","1","2"," ","1","2","3">>,
    <<"a","b","c"," ","7"," ","1","2","3">>,
    <<"v","2">>,
    <<"0","1","1">> }

\* the tokenizer has not returned yet / has returned these spans
NotRun == [done |-> FALSE, spans |-> <<>>]
Returned(spans) == [done |-> TRUE, spans |-> spans]

(***************************************************************************)
(* Idle parts of the state                                                 *)
(***************************************************************************)
NoNote == Note(0, <<>>, <<>>)
NoAdmission == Admission(0, <<>>)

TokIdle  == tok_text = <<>> /\ tok_out = NotRun
NoteIdle == note = NoNote /\ last_op = "none" /\ prev_note = NoNote
MetIdle  == actual = NoAdmission /\ predicted = NoAdmission /\ metric = "none"
            /\ result = Raise("none")
EvalIdle == gold = <<>> /\ predictions = <<>> /\ todo = {} /\ error_rates = <<>>
            /\ status = "idle" /\ last = <<>>

(***************************************************************************)
(* The tokenizer on its own                                                *)
(***************************************************************************)
TokInit ==
    /\ \/ \E k \in 0..MaxTokLen : tok_text \in [1..k -> TokAlphabet]
       \/ tok_text \in ExampleTexts
    /\ tok_out = NotRun
    /\ NoteIdle /\ MetIdle /\ EvalIdle

Tokenize ==
    /\ ~tok_out.done
    /\ tok_out' = Returned(tokenize(tok_text))
    /\ UNCHANGED <<tok_text, note_vars, met_vars, eval_vars>>

TokNext == Tokenize

SpecTokenize == TokInit /\ [][TokNext]_vars

(***************************************************************************)
(* The cleanup transforms and token expansion on one note                  *)
(***************************************************************************)
CleanupInit ==
    /\ \E text \in NoteTexts : \E k \in 0..MaxAnnos :
         \E annos \in [1..k -> LoadedAnnotations(text)] : note = Note(1, text, annos)
    /\ last_op = "load"
    /\ prev_note = note
    /\ TokIdle /\ MetIdle /\ EvalIdle

\* merge_adjacent_annotations, on the note
MergeAdjacent ==
    /\ note' = merge_adjacent_in_note(note)
    /\ last_op' = "merge"
    /\ prev_note' = note
    /\ UNCHANGED <<tok_vars, met_vars, eval_vars>>

\* trim_annotations, on the note
Trim ==
    /\ note' = trim_annotations_in_note(note)
    /\ last_op' = "trim"
    /\ prev_note' = note
    /\ UNCHANGED <<tok_vars, met_vars, eval_vars>>

\* tokenize_admission, on an admission of the note; a ValueError leaves no
\* new note
TokenExpand ==
    /\ \E expanded \in {tokenize_admission(Admission(1, <<note>>))} :
          IF expanded.ok
          THEN note' = expanded.value.notes[1] /\ last_op' = "tokenize"
          ELSE note' = note /\ last_op' = expanded.exc
    /\ prev_note' = note
    /\ UNCHANGED <<tok_vars, met_vars, eval_vars>>

CleanupNext == MergeAdjacent \/ Trim \/ TokenExpand

SpecCleanup == CleanupInit /\ [][CleanupNext]_vars

(***************************************************************************)
(* The comparisons on one pair of admissions                               *)
(***************************************************************************)
MetricsInit ==
    /\ \E ka \in 0..MaxPairAnnos, kp \in 0..MaxPairAnnos :
         \E pa \in [1..ka -> PlacedAnnotations], pp \in [1..kp -> PlacedAnnotations] :
            /\ actual = AdmissionOf(1, pa)
            /\ predicted = AdmissionOf(1, pp)
    /\ metric = "none"
    /\ result = Raise("none")
    /\ TokIdle /\ NoteIdle /\ EvalIdle

ExactMatch ==
    /\ metric = "none"
    /\ metric' = "exact_match_error"
    /\ result' = exact_match_error(actual, predicted)
    /\ UNCHANGED <<actual, predicted, tok_vars, note_vars, eval_vars>>

PositionIndependent ==
    /\ metric = "none"
    /\ metric' = "position_independent_error"
    /\ result' = position_independent_error(actual, predicted)
    /\ UNCHANGED <<actual, predicted, tok_vars, note_vars, eval_vars>>

TokenExactMatch ==
    /\ metric = "none"
    /\ metric' = "token_exact_match_error"
    /\ result' = token_exact_match_error(actual, predicted)
    /\ UNCHANGED <<actual, predicted, tok_vars, note_vars, eval_vars>>

TokenPositionIndependent ==
    /\ metric = "none"
    /\ metric' = "token_position_independent_error"
    /\ result' = token_position_independent_error(actual, predicted)
    /\ UNCHANGED <<actual, predicted, tok_vars, note_vars, eval_vars>>

\* observe on a new AllErrorRates
ObservePair ==
    /\ metric = "none"
    /\ metric' = "observe"
    /\ \E after \in {observe(NewErrorRates, actual, predicted)} :
          result' = [ok |-> after.exc = "none", value |-> after.error_rates,
                     exc |-> after.exc]
    /\ UNCHANGED <<actual, predicted, tok_vars, note_vars, eval_vars>>

MetricsNext ==
    \/ ExactMatch
    \/ PositionIndependent
    \/ TokenExactMatch
    \/ TokenPositionIndependent
    \/ ObservePair

SpecMetrics == MetricsInit /\ [][MetricsNext]_vars

(***************************************************************************)
(* evaluate-predictions.py: main, from the loop on                         *)
(***************************************************************************)
\* gold and predictions as load_grouped_predictions returned them, and a new
\* AllErrorRates
Init ==
    /\ \E G \in SUBSET HadmIds, P \in SUBSET HadmIds :
         \E g \in [G -> LoadedAdmissions], p \in [P -> LoadedAdmissions] :
            /\ gold = [h \in G |-> AdmissionOf(h, g[h])]
            /\ predictions = [h \in P |-> AdmissionOf(h, p[h])]
    /\ todo = DOMAIN gold
    /\ error_rates = NewErrorRates
    /\ status = "running"
    /\ last = [hadm_id |-> 0, before |-> NewErrorRates, exc |-> "none"]
    /\ TokIdle /\ NoteIdle /\ MetIdle

\* predictions.get(hadm_id, [])
PredictionsGet(hadm_id) ==
    IF hadm_id \in DOMAIN predictions THEN predictions[hadm_id] ELSE EmptyList

\* one iteration of the loop over gold.items(), in the order the loader
\* listed the admissions; an exception of observe ends main
LoopIteration ==
    /\ status = "running"
    /\ \E hadm_id \in todo :
         \E after \in {observe(error_rates, gold[hadm_id], PredictionsGet(hadm_id))} :
             /\ error_rates' = after.error_rates
             /\ status' = IF after.exc = "none" THEN "running" ELSE "failed"
             /\ last' = [hadm_id |-> hadm_id, before |-> error_rates, exc |-> after.exc]
             /\ todo' = todo \ {hadm_id}
    /\ UNCHANGED <<gold, predictions, tok_vars, note_vars, met_vars>>

\* the loop is over: the error rates are logged and written
Report ==
    /\ status = "running"
    /\ todo = {}
    /\ status' = "done"
    /\ UNCHANGED <<gold, predictions, todo, error_rates, last, tok_vars, note_vars,
                   met_vars>>

Next == LoopIteration \/ Report

Spec == Init /\ [][Next]_vars

(***************************************************************************)
(* C3 - C5: the comparisons                                                *)
(***************************************************************************)
\* the places of the annotations of an admission: <<note index, index in
\* the note>>
Positions(admission) ==
    UNION {{<<n, k>> : k \in DOMAIN admission.notes[n].annotations} :
           n \in DOMAIN admission.notes}

NoteIdAt(admission, pos) == admission.notes[pos[1]].note_id
AnnotationAt(admission, pos) == admission.notes[pos[1]].annotations[pos[2]]

Earlier(p, q) == p[1] < q[1] \/ (p[1] = q[1] /\ p[2] < q[2])

\* same note_id, span and billing code
SameExactKey(x, px, y, py) ==
    /\ NoteIdAt(x, px) = NoteIdAt(y, py)
    /\ AnnotationAt(x, px).span = AnnotationAt(y, py).span
    /\ AnnotationAt(x, px).billing_code = AnnotationAt(y, py).billing_code

EqualUpToCase(s, t) ==
    /\ Len(s) = Len(t)
    /\ \A i \in 1..Len(s) : LowerChar(s[i]) = LowerChar(t[i])

\* same billing code and covered texts equal up to letter case
SamePositionIndependentKey(x, px, y, py) ==
    /\ AnnotationAt(x, px).billing_code = AnnotationAt(y, py).billing_code
    /\ EqualUpToCase(AnnotationAt(x, px).span.covered_text,
                     AnnotationAt(y, py).span.covered_text)

\* the annotations at px of x and at py of y hold the same key, exact or
\* position-independent
SameKey(same, x, px, y, py) ==
    IF same = "exact" THEN SameExactKey(x, px, y, py)
    ELSE SamePositionIndependentKey(x, px, y, py)

\* one place for each key of the admission: the first that holds it
FirstPlaces(x, same) ==
    {p \in Positions(x) :
        ~\E q \in Positions(x) : Earlier(q, p) /\ SameKey(same, x, q, x, p)}

\* the keys of x, by their first places, that y holds too
Shared(x, y, same) ==
    {p \in FirstPlaces(x, same) : \E q \in Positions(y) : SameKey(same, x, p, y, q)}

\* TP, FP and FN count the keys, each once: the keys of both admissions,
\* of the predicted one only and of the actual one only
CountsKeysOnce(rate, same) ==
    /\ rate.true_positives = Cardinality(Shared(actual, predicted, same))
    /\ rate.true_positives = Cardinality(Shared(predicted, actual, same))
    /\ rate.false_positives =
          Cardinality(FirstPlaces(predicted, same) \ Shared(predicted, actual, same))
    /\ rate.false_negatives =
          Cardinality(FirstPlaces(actual, same) \ Shared(actual, predicted, same))
    /\ n_pred(rate) = Cardinality(FirstPlaces(predicted, same))
    /\ n_actual(rate) = Cardinality(FirstPlaces(actual, same))

\* C3: exact_match_error returns TP = |A \cap P|, FP = |P \ A| and
\* FN = |A \ P| for the sets A and P of (note_id, annotation) keys of the
\* actual and the predicted admission, a key held several times counted
\* once; one annotation against itself and one more gives TP=1, FP=1, FN=0.
C3_ExactMatchCountsKeySets ==
    metric = "exact_match_error" =>
        /\ result.ok
        /\ CountsKeysOnce(result.value, "exact")
        /\ ( /\ actual = AdmissionOf(1, <<Placed(1, 0, 2, TRUE, "A")>>)
             /\ predicted = AdmissionOf(1, <<Placed(1, 0, 2, TRUE, "A"),
                                             Placed(1, 0, 2, TRUE, "B")>>) )
           => result.value = ErrorRate(1, 1, 0)

\* exact_match_error has compared an actual admission that holds one key
\* twice with a predicted one that holds it and the same annotation in the
\* other note
C3_Witness ==
    /\ metric = "exact_match_error"
    /\ actual = AdmissionOf(1, <<Placed(1, 0, 2, TRUE, "A"), Placed(1, 0, 2, TRUE, "A")>>)
    /\ predicted = AdmissionOf(1, <<Placed(1, 0, 2, TRUE, "A"), Placed(2, 0, 2, TRUE, "A")>>)
    /\ result.value = ErrorRate(1, 1, 0)

AnyNoneText(admission) ==
    \E p \in Positions(admission) : AnnotationAt(admission, p).span.covered_text = None

\* C4: position_independent_error matches on (lower-cased covered_text,
\* billing_code) only: annotations with one billing code and covered texts
\* equal up to letter case are one key whatever their offsets and notes, and
\* a key held several times counts once.
C4_PositionIndependentKeys ==
    (metric = "position_independent_error"
     /\ ~AnyNoneText(actual) /\ ~AnyNoneText(predicted)) =>
        /\ result.ok
        /\ CountsKeysOnce(result.value, "position_independent")

\* position_independent_error has matched "Ab" at [0,2) of note 1 and of
\* note 2 with "ab" at [3,5) of note 1 as one true positive
C4_Witness ==
    /\ metric = "position_independent_error"
    /\ actual = AdmissionOf(1, <<Placed(1, 0, 2, TRUE, "A"), Placed(2, 0, 2, TRUE, "A")>>)
    /\ predicted = AdmissionOf(1, <<Placed(1, 3, 5, TRUE, "A")>>)
    /\ result.value = ErrorRate(1, 0, 0)

\* C5: when an annotation of the actual or the predicted admission has no
\* covered_text, token_exact_match_error and
\* token_position_independent_error raise, and so does observe, which adds
\* nothing to the two token-level accumulators.
C5_MissingTextRaises ==
    (AnyNoneText(actual) \/ AnyNoneText(predicted)) =>
        /\ metric \in {"token_exact_match_error", "token_position_independent_error"}
              => ~result.ok /\ result.exc = "ValueError"
        /\ metric = "observe"
              => /\ ~result.ok
                 /\ result.value.token_exact_match = ErrorRate(0, 0, 0)
                 /\ result.value.token_position_independent = ErrorRate(0, 0, 0)

\* a token-level comparison has raised for a pair in which only the
\* predicted admission, and only its second annotation, has no covered_text
C5_Witness ==
    /\ metric = "token_exact_match_error"
    /\ ~AnyNoneText(actual)
    /\ predicted = AdmissionOf(1, <<Placed(1, 0, 5, TRUE, "A"), Placed(1, 0, 2, FALSE, "A")>>)
    /\ ~result.ok

(***************************************************************************)
(* C1, C2: the evaluation loop                                             *)
(***************************************************************************)
\* the gold hadm_ids the loop has passed to observe
Observed == DOMAIN gold \ todo

\* what observe adds for the pair of hadm_id, to new accumulators
Contribution(hadm_id) ==
    observe(NewErrorRates, gold[hadm_id], PredictionsGet(hadm_id)).error_rates

\* the sum of the numbers f[h] for h in ids
RECURSIVE SumOver(_, _)
SumOver(ids, f) ==
    IF ids = {} THEN 0
    ELSE LET h == CHOOSE x \in ids : \A y \in ids : x <= y
         IN  f[h] + SumOver(ids \ {h}, f)

Accumulators == {"span_exact_match", "span_position_independent",
                 "token_exact_match", "token_position_independent"}
Counts == {"true_positives", "false_positives", "false_negatives"}

\* C1: whatever order the pairs were observed in, each count of each of the
\* four accumulators is the sum of what the observed pairs contribute; and
\* ErrorRate addition is commutative and associative on their count triples.
C1_TotalsIndependentOfOrder ==
    \A contribution \in {[h \in DOMAIN gold |-> Contribution(h)]} :
        /\ \A accumulator \in Accumulators, count \in Counts :
              error_rates[accumulator][count] =
                 SumOver(Observed, [h \in DOMAIN gold |->
                                       contribution[h][accumulator][count]])
        /\ \A accumulator \in Accumulators :
              \A h1, h2, h3 \in DOMAIN gold :
                 LET x == contribution[h1][accumulator]
                     y == contribution[h2][accumulator]
                     z == contribution[h3][accumulator]
                 IN  /\ __add__(x, y) = __add__(y, x)
                     /\ __add__(__add__(x, y), z) = __add__(x, __add__(y, z))

\* the loop is over two pairs that contribute differently, the pair of the
\* greater hadm_id observed first
C1_Witness ==
    /\ status = "done"
    /\ DOMAIN gold = {1, 2}
    /\ last.hadm_id = 1
    /\ Contribution(1) # Contribution(2)
    /\ error_rates.span_exact_match.true_positives > 0
    /\ error_rates.token_exact_match.false_negatives > 0

\* C2: a gold admission (with covered_text on its annotations) whose hadm_id
\* has no entry in the predictions is no error: the loop goes on, and each
\* of the four accumulators gets 0 more TP, 0 more FP and as many more FN as
\* the admission, token-expanded for the token-level ones, has keys.
C2_MissingPredictionOnlyFalseNegatives ==
    (last.hadm_id \in DOMAIN gold
     /\ last.hadm_id \notin DOMAIN predictions
     /\ ~AnyNoneText(gold[last.hadm_id])) =>
        LET adm == gold[last.hadm_id]
            tokens == tokenize_admission(adm).value
            Only(fn) == ErrorRate(0, 0, fn)
        IN  /\ last.exc = "none"
            /\ status # "failed"
            /\ error_rates.span_exact_match =
                  __add__(last.before.span_exact_match,
                          Only(Cardinality(FirstPlaces(adm, "exact"))))
            /\ error_rates.span_position_independent =
                  __add__(last.before.span_position_independent,
                          Only(Cardinality(FirstPlaces(adm, "position_independent"))))
            /\ error_rates.token_exact_match =
                  __add__(last.before.token_exact_match,
                          Only(Cardinality(FirstPlaces(tokens, "exact"))))
            /\ error_rates.token_position_independent =
                  __add__(last.before.token_position_independent,
                          Only(Cardinality(FirstPlaces(tokens, "position_independent"))))

(***************************************************************************)
(* C6 - C9: cleanup                                                        *)
(***************************************************************************)
\* C6: trim is idempotent: a note that trim_annotations_in_note returned is
\* returned unchanged by trim_annotations_in_note, also when an annotation
\* was trimmed to zero length.
C6_TrimIdempotent ==
    last_op = "trim" => trim_annotations_in_note(note) = note

\* previous and current hold the same billing code and every character of
\* the text from the end of previous up to the begin of current, if there is
\* any, is punctuation or whitespace
SeparatedByNothingBreaking(previous, current, text) ==
    /\ previous.billing_code = current.billing_code
    /\ \A i \in (previous.span.end + 1)..current.span.begin :
           text[i] \in Punctuation \cup Whitespace

\* annotation i comes before annotation j in ascending order of begin, equal
\* begins in list order
ComesBefore(annotations, i, j) ==
    \/ annotations[i].span.begin < annotations[j].span.begin
    \/ annotations[i].span.begin = annotations[j].span.begin /\ i < j

\* annotation j follows annotation i in that order
Follows(annotations, i, j) ==
    /\ ComesBefore(annotations, i, j)
    /\ ~\E k \in DOMAIN annotations :
           ComesBefore(annotations, i, k) /\ ComesBefore(annotations, k, j)

\* C7: merge-adjacent is idempotent: a note that merge_adjacent_in_note
\* returned, whatever overlapping, nested or equal-begin annotations it was
\* given, is returned unchanged by merge_adjacent_in_note, and no two
\* annotations that follow each other in its begin order are merge-eligible.
C7_MergeIdempotent ==
    last_op = "merge" =>
        /\ merge_adjacent_in_note(note) = note
        /\ \A i, j \in DOMAIN note.annotations :
              Follows(note.annotations, i, j)
                  => ~SeparatedByNothingBreaking(note.annotations[i],
                                                 note.annotations[j], note.text)

Overlap(a, b) == a.span.begin < b.span.end /\ b.span.begin < a.span.end

\* merge-adjacent has merged annotations of a note that held overlapping
\* annotations of one billing code
C7_Witness ==
    /\ last_op = "merge"
    /\ Len(note.annotations) < Len(prev_note.annotations)
    /\ \E i, j \in DOMAIN prev_note.annotations :
          /\ i # j
          /\ prev_note.annotations[i].billing_code = prev_note.annotations[j].billing_code
          /\ Overlap(prev_note.annotations[i], prev_note.annotations[j])

\* C8: after merge-adjacent every annotation of the input lies within an
\* annotation of the output with its billing code (a merged run spans from
\* the least begin to the greatest end of its annotations), annotations of
\* different billing codes are not merged, and over "a,B" the spans [0,1)
\* and [2,3) of one billing code become [0,3).
C8_MergedSpanCoversRun ==
    last_op = "merge" =>
        /\ \A i \in DOMAIN prev_note.annotations :
              \E k \in DOMAIN note.annotations :
                 /\ note.annotations[k].billing_code =
                        prev_note.annotations[i].billing_code
                 /\ note.annotations[k].span.begin <= prev_note.annotations[i].span.begin
                 /\ prev_note.annotations[i].span.end <= note.annotations[k].span.end
        /\ \A code \in Codes :
              LET spans == <<Span(0, 1, <<"a">>), Span(2, 3, <<"B">>)>>
              IN  prev_note = Note(1, <<"a", ",", "B">>,
                                   [k \in 1..2 |-> Annotation(spans[k], code)])
                  => note.annotations =
                        <<Annotation(Span(0, 3, <<"a", ",", "B">>), code)>>

\* covered_text, when present, is the text of the note at the span
CoveredTextExact(n) ==
    \A k \in DOMAIN n.annotations :
        LET span == n.annotations[k].span
        IN  span.covered_text # None =>
                /\ 0 <= span.begin /\ span.begin <= span.end /\ span.end <= Len(n.text)
                /\ span.covered_text = SubSeq(n.text, span.begin + 1, span.end)

\* C9 as claimed: after any sequence of merge-adjacent, trim and token
\* expansion on a loaded note, every annotation with covered_text present
\* has covered_text == note.text[begin:end] and a span within the text.
C9_CoveredTextIsNoteText == CoveredTextExact(note)

\* C9 as amended: the span is within the text and covered_text is
\* note.text[begin:end] or, for the annotations token expansion made, that
\* text lower-cased; after load, merge-adjacent of an exact note, and trim it
\* is note.text[begin:end] itself.
C9_CoveredTextUpToCase ==
    /\ \A k \in DOMAIN note.annotations :
          LET span == note.annotations[k].span
              under == SubSeq(note.text, span.begin + 1, span.end)
          IN  span.covered_text # None =>
                /\ 0 <= span.begin /\ span.begin <= span.end
                /\ span.end <= Len(note.text)
                /\ \/ span.covered_text = under
                   \/ /\ Len(span.covered_text) = Len(under)
                      /\ \A i \in 1..Len(under) :
                            span.covered_text[i] = LowerChar(under[i])
    /\ last_op \in {"load", "trim"} => CoveredTextExact(note)
    /\ last_op = "merge" /\ CoveredTextExact(prev_note) => CoveredTextExact(note)

\* a merge of token annotations: the merged annotation carries the text of
\* the note with its upper-case letter, beside nothing or a lower-cased token
C9_Witness ==
    /\ last_op = "merge"
    /\ Len(note.annotations) < Len(prev_note.annotations)
    /\ ~CoveredTextExact(prev_note)
    /\ \E k \in DOMAIN note.annotations :
          note.annotations[k].span = Span(0, 3, <<"a", ",", "B">>)

(***************************************************************************)
(* C10: tokenize                                                           *)
(***************************************************************************)
\* [b, e) is a maximal run of word characters of text
IsMaximalRun(text, b, e) ==
    /\ 0 <= b /\ b < e /\ e <= Len(text)
    /\ \A i \in (b + 1)..e : IsWordChar(text[i])
    /\ b = 0 \/ ~IsWordChar(text[b])
    /\ e = Len(text) \/ ~IsWordChar(text[e + 1])

RECURSIVE StripLeadingZeros(_)
StripLeadingZeros(digits) ==
    IF Len(digits) > 0 /\ digits[1] = "0" THEN StripLeadingZeros(Tail(digits)) ELSE digits

\* digits only, and greater than 10 read as a decimal numeral: without its
\* leading zeros it has three digits or more, or two digits other than "10"
IsNumberAboveTen(word) ==
    /\ Len(word) > 0
    /\ \A i \in 1..Len(word) : word[i] \in {"0","1","2","3","4","5","6","7","8","9"}
    /\ LET z == StripLeadingZeros(word)
       IN  Len(z) >= 3 \/ (Len(z) = 2 /\ z # <<"1","0">>)

CoveredTexts(spans) == [k \in DOMAIN spans |-> spans[k].covered_text]

\* C10: tokenize returns, left to right, one span per maximal run of word
\* characters of the lower-cased text, the span carrying that run as its
\* covered text, and leaves out exactly the runs that are digits only with a
\* value above 10; "" gives nothing, "abc 12 123" gives "abc", "abc 7 123"
\* gives "abc" and "7", and "v2" is kept.
C10_TokenizeRuns ==
    tok_out.done =>
        LET t == lower(tok_text)
            out == tok_out.spans
        IN  /\ \A k \in DOMAIN out :
                 /\ IsMaximalRun(t, out[k].begin, out[k].end)
                 /\ out[k].covered_text = Slice(t, out[k].begin, out[k].end)
                 /\ ~IsNumberAboveTen(out[k].covered_text)
            /\ \A j, k \in DOMAIN out : j < k => out[j].end <= out[k].begin
            /\ \A b, e \in 0..Len(t) :
                 IsMaximalRun(t, b, e) /\ ~IsNumberAboveTen(Slice(t, b, e))
                     => \E k \in DOMAIN out : out[k].begin = b /\ out[k].end = e
            /\ tok_text = <<>> => out = <<>>
            /\ tok_text = <<"a","b","c"," ","1","2"," ","1","2","3">>
                 => CoveredTexts(out) = << <<"a","b","c">> >>
            /\ tok_text = <<"a","b","c"," ","7"," ","1","2","3">>
                 => CoveredTexts(out) = << <<"a","b","c">>, <<"7">> >>
            /\ tok_text = <<"v","2">> => CoveredTexts(out) = << <<"v","2">> >>

\* tokenize has returned for a text with an upper-case word, the number 10
\* kept, and for one with a number above 10 dropped beside a kept token
C10_Witness ==
    /\ tok_out.done
    /\ \/ tok_text = <<"V","1","0">> /\ Len(tok_out.spans) = 1
       \/ tok_text = <<"1","0"," ">> /\ Len(tok_out.spans) = 1
       \/ tok_text = <<"a","b","c"," ","7"," ","1","2","3">> /\ Len(tok_out.spans) = 2

(***************************************************************************)
(* C11: what trim returns                                                  *)
(***************************************************************************)
\* the span [0, 5) over "(abc)", with its covered text
OpeningClosingText == <<"(", "a", "b", "c", ")">>
OpeningClosingSpan == Span(0, 5, OpeningClosingText)

\* the span lies within [begin, end) of the span it was trimmed from and is
\* empty or begins and ends on characters that are not trimmed on that side
TrimmedFrom(text, before, after) ==
    /\ before.begin <= after.begin
    /\ after.begin <= after.end
    /\ after.end <= before.end
    /\ \/ after.begin = after.end
       \/ /\ text[after.begin + 1] \notin {")", "-", ".", ",", "/", " ", "\n", "\t"}
          /\ text[after.end] \notin {"(", "-", ".", ",", "/", " ", "\n", "\t"}

\* C11: trim returns one annotation for every annotation of the note, in
\* order and with its billing code; the span [b', e') of each lies within
\* the span [begin, end) it came from and is zero-length (and still there)
\* or has text[b'] outside the left trim set and text[e' - 1] outside the
\* right trim set; the span [0, 5) over "(abc)" is returned as it is.
C11_TrimBoundaries ==
    /\ _do_trim(OpeningClosingText, OpeningClosingSpan) = OpeningClosingSpan
    /\ last_op = "trim" =>
          /\ Len(note.annotations) = Len(prev_note.annotations)
          /\ note.text = prev_note.text
          /\ \A k \in DOMAIN prev_note.annotations :
                /\ note.annotations[k].billing_code = prev_note.annotations[k].billing_code
                /\ TrimmedFrom(note.text, prev_note.annotations[k].span,
                               note.annotations[k].span)

\* trim has shortened one annotation to a shorter span that is not empty and
\* another, that was not empty, to a zero-length span
C11_Witness ==
    /\ last_op = "trim"
    /\ \E k \in DOMAIN prev_note.annotations :
          /\ note.annotations[k].span.begin < note.annotations[k].span.end
          /\ note.annotations[k].span.end < prev_note.annotations[k].span.end
    /\ \E k \in DOMAIN prev_note.annotations :
          /\ prev_note.annotations[k].span.begin < prev_note.annotations[k].span.end
          /\ note.annotations[k].span.begin = note.annotations[k].span.end

(***************************************************************************)
(* C12: token expansion                                                    *)
(***************************************************************************)
\* how many annotations the annotations before the k-th are replaced by
RECURSIVE TokensBefore(_, _)
TokensBefore(annotations, k) ==
    IF k <= 1 THEN 0
    ELSE TokensBefore(annotations, k - 1)
         + Len(tokenize(annotations[k - 1].span.covered_text))

\* C12: token expansion replaces each annotation (span [b, e), covered text
\* t, billing code c) by one annotation per token of tokenize(t), in token
\* order, with span [b + token.begin, b + token.end), the token's text as
\* covered text and billing code c; each such span lies inside [b, e); an
\* annotation whose covered text yields no token contributes no annotation.
\* The expansion is refused (ValueError) exactly when an annotation has no
\* covered text.
C12_TokenExpansion ==
    /\ last_op = "ValueError" =>
          /\ note = prev_note
          /\ \E k \in DOMAIN prev_note.annotations :
                prev_note.annotations[k].span.covered_text = None
    /\ last_op = "tokenize" =>
          /\ \A k \in DOMAIN prev_note.annotations :
                prev_note.annotations[k].span.covered_text # None
          /\ note.note_id = prev_note.note_id
          /\ note.text = prev_note.text
          /\ Len(note.annotations) =
                TokensBefore(prev_note.annotations, Len(prev_note.annotations) + 1)
          /\ \A k \in DOMAIN prev_note.annotations :
                \A tokens \in {tokenize(prev_note.annotations[k].span.covered_text)} :
                   \A j \in DOMAIN tokens :
                      LET from == prev_note.annotations[k]
                          made == note.annotations[TokensBefore(prev_note.annotations, k) + j]
                      IN  /\ made.billing_code = from.billing_code
                          /\ made.span.begin = from.span.begin + tokens[j].begin
                          /\ made.span.end = from.span.begin + tokens[j].end
                          /\ made.span.covered_text = tokens[j].covered_text
                          /\ from.span.begin <= made.span.begin
                          /\ made.span.begin < made.span.end
                          /\ made.span.end <= from.span.end

\* the expansion of "a,B" at [0, 3) with code A and "," at [1, 2) with code
\* B: the two tokens of the first in order, the second of them at an offset
\* and lower-cased, and nothing for the second annotation
C12_Witness ==
    /\ last_op = "tokenize"
    /\ prev_note.annotations =
          <<Annotation(Span(0, 3, <<"a", ",", "B">>), "A"),
            Annotation(Span(1, 2, <<",">>), "B")>>
    /\ note.annotations =
          <<Annotation(Span(0, 1, <<"a">>), "A"), Annotation(Span(2, 3, <<"b">>), "A")>>

\* the expansion of ",B" at [1, 3): its token, one place into the covered
\* text, is at [2, 3) of the note
C12_WitnessOffset ==
    /\ last_op = "tokenize"
    /\ prev_note.annotations = <<Annotation(Span(1, 3, <<",", "B">>), "A")>>
    /\ note.annotations = <<Annotation(Span(2, 3, <<"b">>), "A")>>

(***************************************************************************)
(* C13: a failed observe                                                   *)
(***************************************************************************)
\* C13: observe is all-or-nothing: when the call of observe for a pair has
\* raised, each of the four accumulators holds the counts it held before the
\* call, so that the four accumulators always cover the same pairs.
C13_ObserveAllOrNothing ==
    last.exc # "none" => error_rates = last.before

(***************************************************************************)
(* C14: the predicted annotations in the totals                            *)
(***************************************************************************)
\* the number of distinct (note_id, annotation) keys of the predicted
\* admissions, each admission's keys counted for itself
PredictedKeys ==
    SumOver(DOMAIN predictions,
            [h \in DOMAIN predictions |->
                Cardinality(FirstPlaces(predictions[h], "exact"))])

\* C14: when the loop is over, TP + FP of the span_exact_match accumulator
\* is the number of distinct (note_id, annotation) keys of all predicted
\* admissions, those whose hadm_id has no gold admission included.
C14_PredictedAllCounted ==
    status = "done" => n_pred(error_rates.span_exact_match) = PredictedKeys

====
